---- MODULE Spec2Model ----
(***************************************************************************)
(* State-machine model of the weather query pipeline of                    *)
(* backend/app/agent.py (WeatherAgent, run_agent), with the telemetry      *)
(* fetcher of backend/app/tools.py and the knowledge base of               *)
(* backend/app/kb_manager.py as fallible collaborators.                    *)
(*                                                                         *)
(* Text is modelled as sequences of one-character strings (queries, cache  *)
(* keys, city names) or of tokens (backend output, responses).  Python's   *)
(* None is the one-token sequence <<"None">>.                              *)
(***************************************************************************)
EXTENDS Naturals, Sequences, FiniteSets

(***************************************************************************)
(* Characters and the str methods the code uses                            *)
(***************************************************************************)
LowerCase == <<"a","b","c","d","e","f","g","h","i","j","k","l","m","n","o","p","q","r","s","t","u","v","w","x","y","z">>
UpperCase == <<"A","B","C","D","E","F","G","H","I","J","K","L","M","N","O","P","Q","R","S","T","U","V","W","X","Y","Z">>

None == <<"None">>

Range(s) == {s[i] : i \in 1..Len(s)}
Min(S) == CHOOSE x \in S : \A y \in S : x <= y
Max(S) == CHOOSE x \in S : \A y \in S : x >= y

IsLower(c) == c \in Range(LowerCase)
IsUpper(c) == c \in Range(UpperCase)
IsLetter(c) == IsLower(c) \/ IsUpper(c)
Whitespace == {" ", "\n", "\t"}
IsSpace(c) == c \in Whitespace
\* \w of the re module, over the characters that occur here
IsWordChar(c) == IsLetter(c) \/ c = "_"

Lower(c) == IF IsUpper(c) THEN LowerCase[CHOOSE i \in 1..26 : UpperCase[i] = c] ELSE c
Upper(c) == IF IsLower(c) THEN UpperCase[CHOOSE i \in 1..26 : LowerCase[i] = c] ELSE c

\* str.lower()
StrLower(s) == [i \in 1..Len(s) |-> Lower(s[i])]

\* str.strip(chars): drop the leading and trailing characters that are in chars
StripBy(s, chars) ==
  LET keep == {i \in 1..Len(s) : s[i] \notin chars}
  IN IF keep = {} THEN <<>> ELSE SubSeq(s, Min(keep), Max(keep))

\* str.strip()
Strip(s) == StripBy(s, Whitespace)

\* str.title(): a letter is upper-cased after a non-letter, lower-cased after a letter
Title(s) ==
  [i \in 1..Len(s) |->
     IF ~IsLetter(s[i]) THEN s[i]
     ELSE IF i = 1 \/ ~IsLetter(s[i-1]) THEN Upper(s[i]) ELSE Lower(s[i])]

\* `word in text`
Contains(text, word) ==
  \E i \in 1..(Len(text) + 1) :
     i + Len(word) - 1 <= Len(text) /\ SubSeq(text, i, i + Len(word) - 1) = word

(***************************************************************************)
(* Regular expressions.  A pattern is run as the set of positions its      *)
(* prefixes can end at: P holds the indices of the next character to read. *)
(***************************************************************************)
MatchLit(s, P, lit) ==
  {p + Len(lit) : p \in {x \in P : x + Len(lit) - 1 <= Len(s)
                                   /\ SubSeq(s, x, x + Len(lit) - 1) = lit}}

MatchAlt(s, P, lits) == UNION {MatchLit(s, P, l) : l \in lits}

\* x? for a literal x
MatchOptLit(s, P, lit) == P \cup MatchLit(s, P, lit)

\* .? (the dot matches anything but a newline)
MatchOptDot(s, P) == P \cup {p + 1 : p \in {x \in P : x <= Len(s) /\ s[x] # "\n"}}

\* [class]+ for a class given as its set of characters
MatchPlus(s, P, class) ==
  {e \in 2..(Len(s) + 1) : \E p \in P : p < e /\ \A i \in p..(e - 1) : s[i] \in class}

\* $ at position e: the end of the text, or just before a final newline
AtEnd(s, e) == e = Len(s) + 1 \/ (e = Len(s) /\ s[e] = "\n")

\* ...$ for re.match
MatchesToEnd(s, P) == \E e \in P : AtEnd(s, e)

\* [a-z\s\-\.]
SimpleClass == Range(LowerCase) \cup Whitespace \cup {"-", "."}

\* [a-z\s\-\.']
CityClass == SimpleClass \cup {"'"}

InAtFor == {<<"i","n">>, <<"a","t">>, <<"f","o","r">>}

(***************************************************************************)
(* WeatherAgent._is_simple_query                                           *)
(***************************************************************************)
\* ^weather (?:in|at|for) [a-z\s\-\.]+\??$
SimplePattern1(q) ==
  LET a == MatchLit(q, {1}, <<"w","e","a","t","h","e","r"," ">>)
      b == MatchLit(q, MatchAlt(q, a, InAtFor), <<" ">>)
      c == MatchPlus(q, b, SimpleClass)
  IN MatchesToEnd(q, MatchOptLit(q, c, <<"?">>))

\* ^what.?s? (?:the )?weather (?:in|at|for) [a-z\s\-\.]+\??$
SimplePattern2(q) ==
  LET a == MatchLit(q, {1}, <<"w","h","a","t">>)
      b == MatchOptLit(q, MatchOptDot(q, a), <<"s">>)
      c == MatchOptLit(q, MatchLit(q, b, <<" ">>), <<"t","h","e"," ">>)
      d == MatchLit(q, c, <<"w","e","a","t","h","e","r"," ">>)
      e == MatchLit(q, MatchAlt(q, d, InAtFor), <<" ">>)
      f == MatchPlus(q, e, SimpleClass)
  IN MatchesToEnd(q, MatchOptLit(q, f, <<"?">>))

\* ^how.?s? [a-z\s\-\.]+ weather\??$
SimplePattern3(q) ==
  LET a == MatchLit(q, {1}, <<"h","o","w">>)
      b == MatchOptLit(q, MatchOptDot(q, a), <<"s">>)
      c == MatchLit(q, b, <<" ">>)
      d == MatchPlus(q, c, SimpleClass)
      e == MatchLit(q, d, <<" ","w","e","a","t","h","e","r">>)
  IN MatchesToEnd(q, MatchOptLit(q, e, <<"?">>))

\* ^[a-z\s\-\.]+ weather\??$
SimplePattern4(q) ==
  LET a == MatchPlus(q, {1}, SimpleClass)
      b == MatchLit(q, a, <<" ","w","e","a","t","h","e","r">>)
  IN MatchesToEnd(q, MatchOptLit(q, b, <<"?">>))

\* ^current weather (?:in|at|for) [a-z\s\-\.]+\??$
SimplePattern5(q) ==
  LET a == MatchLit(q, {1}, <<"c","u","r","r","e","n","t"," ","w","e","a","t","h","e","r"," ">>)
      b == MatchLit(q, MatchAlt(q, a, InAtFor), <<" ">>)
      c == MatchPlus(q, b, SimpleClass)
  IN MatchesToEnd(q, MatchOptLit(q, c, <<"?">>))

complex_keywords ==
  {<<"c","o","m","p","a","r","e">>, <<"a","n","a","l","y","s","i","s">>, <<"p","i","c","n","i","c">>, <<"s","h","o","u","l","d"," ","i">>, <<"r","e","c","o","m","m","e","n","d">>, <<"b","e","t","t","e","r">>,
   <<"w","o","r","s","e">>, <<"w","h","y">>, <<"p","l","a","n","n","i","n","g">>, <<"p","a","r","t","y">>, <<"s","a","f","e">>, <<"r","u","n">>, <<"b","i","k","e">>, <<"h","i","k","e">>,
   <<"o","p","i","n","i","o","n">>, <<"t","h","i","n","k">>, <<"s","u","g","g","e","s","t">>, <<"a","d","v","i","c","e">>, <<"w","e","a","r">>, <<"u","m","b","r","e","l","l","a">>, <<"r","a","i","n","c","o","a","t">>}

\* mutant: a query that matches neither list counts as simple
_is_simple_query_DefaultSimple(query) ==
  LET q == StrLower(query)
  IN IF SimplePattern1(q) \/ SimplePattern2(q) \/ SimplePattern3(q)
        \/ SimplePattern4(q) \/ SimplePattern5(q)
     THEN TRUE
     ELSE IF \E keyword \in complex_keywords : Contains(q, keyword)
          THEN FALSE
          ELSE TRUE

_is_simple_query(query) ==
  LET q == StrLower(query)
  IN IF SimplePattern1(q) \/ SimplePattern2(q) \/ SimplePattern3(q)
        \/ SimplePattern4(q) \/ SimplePattern5(q)
     THEN TRUE
     ELSE IF \E keyword \in complex_keywords : Contains(q, keyword)
          THEN FALSE
          ELSE FALSE

(***************************************************************************)
(* WeatherAgent._extract_city_regex and _fallback_intent_analysis          *)
(***************************************************************************)
\* the ends e of a lazy group [class]+? that starts at p and is followed by a
\* terminator; terms is the set of positions where the terminator matches
GroupEnds(s, p, class, terms) ==
  {e \in (p + 1)..(Len(s) + 1) : e \in terms /\ \A i \in p..(e - 1) : s[i] \in class}

\* re.search(pattern, s).group(1) for a pattern prefix([class]+?)terminator:
\* the leftmost start that matches, and from it the shortest group; None if
\* there is no match.  prefix[i] is the set of positions where the prefix,
\* started at i, can end.
SearchGroup(s, prefix, class, terms) ==
  LET Ok(i) == \E p \in prefix[i] : GroupEnds(s, p, class, terms) # {}
      starts == {i \in 1..(Len(s) + 1) : Ok(i)}
  IN IF starts = {} THEN None
     ELSE LET i == Min(starts)
              p == Min({x \in prefix[i] : GroupEnds(s, x, class, terms) # {}})
              e == Min(GroupEnds(s, p, class, terms))
          IN SubSeq(s, p, e - 1)

\* the positions of s, and the one past its end
Positions(s) == 1..(Len(s) + 1)

\* weather (?:in|of|for|at)<space>
CityPrefix1(s) ==
  [i \in Positions(s) |->
     MatchLit(s, MatchAlt(s, MatchLit(s, {i}, <<"w","e","a","t","h","e","r"," ">>),
                          {<<"i","n">>, <<"o","f">>, <<"f","o","r">>, <<"a","t">>}), <<" ">>)]

\* (?:\?|$|today|now|tomorrow)
CityTerm1(s) ==
  {e \in Positions(s) :
     AtEnd(s, e) \/ MatchAlt(s, {e}, {<<"?">>, <<"t","o","d","a","y">>, <<"n","o","w">>, <<"t","o","m","o","r","r","o","w">>}) # {}}

\* report (?:for|of|on)<space>
CityPrefix2(s) ==
  [i \in Positions(s) |->
     MatchLit(s, MatchAlt(s, MatchLit(s, {i}, <<"r","e","p","o","r","t"," ">>),
                          {<<"f","o","r">>, <<"o","f">>, <<"o","n">>}), <<" ">>)]

\* (?:\?|$)
CityTerm2(s) == {e \in Positions(s) : AtEnd(s, e) \/ MatchLit(s, {e}, <<"?">>) # {}}

\* (?:in|for|at)<space>
CityPrefix3(s) == [i \in Positions(s) |-> MatchLit(s, MatchAlt(s, {i}, InAtFor), <<" ">>)]

NoiseWords == {<<"t","h","e">>, <<"a">>, <<"a","n">>, <<"w","e","a","t","h","e","r">>, <<"r","e","p","o","r","t">>, <<"n","o","w">>, <<"t","o","d","a","y">>}

\* the maximal run of word characters around index i of s
WordRunStart(s, i) ==
  Min({a \in 1..i : \A j \in a..i : IsWordChar(s[j])})
WordRunEnd(s, i) ==
  Max({b \in i..Len(s) : \A j \in i..b : IsWordChar(s[j])})

\* re.sub(r'\b(the|a|an|weather|report|now|today)\b', '', s, flags=re.IGNORECASE):
\* every noise word is made of word characters only, so \b...\b matches exactly
\* the maximal runs of word characters that spell a noise word
IsNoiseAt(s, i) ==
  IsWordChar(s[i])
  /\ StrLower(SubSeq(s, WordRunStart(s, i), WordRunEnd(s, i))) \in NoiseWords

RECURSIVE DropNoiseFrom(_, _)
DropNoiseFrom(s, i) ==
  IF i > Len(s) THEN <<>>
  ELSE (IF IsNoiseAt(s, i) THEN <<>> ELSE <<s[i]>>) \o DropNoiseFrom(s, i + 1)

RemoveNoise(s) == DropNoiseFrom(s, 1)

\* one round of the loop over patterns: the city the pattern gives, None if
\* it does not match or nothing is left after the noise words
CityFromGroup(g) ==
  IF g = None THEN None
  ELSE LET city == Strip(RemoveNoise(Strip(g)))
       IN IF city # <<>> THEN Title(city) ELSE None

\* query.split(): the maximal runs of non-space characters, as <<first, last>>
SplitWords(query) ==
  {w \in (1..Len(query)) \X (1..Len(query)) :
     /\ w[1] <= w[2]
     /\ \A j \in w[1]..w[2] : ~IsSpace(query[j])
     /\ (w[1] = 1 \/ IsSpace(query[w[1] - 1]))
     /\ (w[2] = Len(query) \/ IsSpace(query[w[2] + 1]))}

\* the characters of strip('?.,!')
Punctuation == {"?", ".", ",", "!"}

\* for w in reversed(words): the last word whose strip('?.,!') is longer than
\* two characters and starts with a capital
CapitalizedWord(query) ==
  LET wc(w) == StripBy(SubSeq(query, w[1], w[2]), Punctuation)
      good == {w \in SplitWords(query) : Len(wc(w)) > 2 /\ IsUpper(wc(w)[1])}
  IN IF good = {} THEN None
     ELSE wc(CHOOSE w \in good : \A v \in good : v[1] <= w[1])

_extract_city_regex(query) ==
  LET q == StrLower(query)
      c1 == CityFromGroup(SearchGroup(q, CityPrefix1(q), CityClass, CityTerm1(q)))
      c2 == CityFromGroup(SearchGroup(q, CityPrefix2(q), CityClass, CityTerm2(q)))
      c3 == CityFromGroup(SearchGroup(q, CityPrefix3(q), CityClass, CityTerm2(q)))
  IN IF c1 # None THEN c1
     ELSE IF c2 # None THEN c2
     ELSE IF c3 # None THEN c3
     ELSE CapitalizedWord(query)

FreshWords == {<<"c","u","r","r","e","n","t">>, <<"n","o","w">>, <<"t","o","d","a","y">>, <<"w","h","a","t">>, <<"h","o","w">>}

\* an intent dict: kind "dict", with needs_fresh_data one of "true", "false",
\* "absent" (key missing)
_fallback_intent_analysis(query) ==
  [kind |-> "dict",
   city |-> _extract_city_regex(query),
   needs_fresh_data |->
     IF \E word \in FreshWords : Contains(StrLower(query), word) THEN "true" ELSE "false"]

(***************************************************************************)
(* Backend output: a sequence of tokens.  "<think>", "</think>", the code  *)
(* fence, "\n" and " " are the tokens the cleaning looks at; any other     *)
(* token is a piece of text that contains none of them.                    *)
(***************************************************************************)
\* the token that stands for the three-backtick code fence
Fence == "<fence>"

IndexOfFirst(text, tok) == Min({i \in 1..Len(text) : text[i] = tok})

\* re.sub(r'<think>.*?</think>', '', text, flags=re.DOTALL): each <think> up to
\* the nearest </think> after it goes; an unclosed <think> stays
RECURSIVE RemoveThink(_)
RemoveThink(text) ==
  IF \E i \in 1..Len(text) : text[i] = "<think>"
                             /\ \E j \in (i + 1)..Len(text) : text[j] = "</think>"
  THEN LET i == IndexOfFirst(text, "<think>")
           j == Min({k \in (i + 1)..Len(text) : text[k] = "</think>"})
       IN SubSeq(text, 1, i - 1) \o RemoveThink(SubSeq(text, j + 1, Len(text)))
  ELSE text

\* text.split("\n")
RECURSIVE SplitLines(_)
SplitLines(text) ==
  IF "\n" \in Range(text)
  THEN LET i == IndexOfFirst(text, "\n")
       IN <<SubSeq(text, 1, i - 1)>> \o SplitLines(SubSeq(text, i + 1, Len(text)))
  ELSE <<text>>

\* "\n".join(lines)
RECURSIVE JoinLines(_)
JoinLines(lines) ==
  IF lines = <<>> THEN <<>>
  ELSE IF Len(lines) = 1 THEN lines[1]
  ELSE lines[1] \o <<"\n">> \o JoinLines(Tail(lines))

IsFenceLine(l) == l # <<>> /\ l[1] = Fence
NotFenceLine(l) == ~IsFenceLine(l)

_clean_llm_output(raw) ==
  LET text == Strip(RemoveThink(Strip(raw)))
  IN IF text # <<>> /\ text[1] = Fence
     THEN Strip(JoinLines(SelectSeq(SplitLines(text), NotFenceLine)))
     ELSE text

(***************************************************************************)
(* json.loads on the cleaned intent output.  The JSON documents the        *)
(* backend may send are single tokens; any other text is a                 *)
(* JSONDecodeError.  A parsed value that is no object has kind "other".    *)
(***************************************************************************)
JsonMumbai == "{\"city\": \"Mumbai\", \"intent\": \"comparison\", \"needs_fresh_data\": true}"
JsonPune == "{\"city\": \"Pune\", \"intent\": \"comparison\", \"needs_fresh_data\": true}"
JsonNullCity == "{\"city\": null, \"intent\": \"greeting\", \"needs_fresh_data\": false}"
JsonNoFresh == "{\"city\": \"Mumbai\", \"intent\": \"climate\", \"needs_fresh_data\": false}"
JsonCityOnly == "{\"city\": \"Mumbai\"}"
JsonNumber == "42"

JsonDocuments == {JsonMumbai, JsonPune, JsonNullCity, JsonNoFresh, JsonCityOnly, JsonNumber}

Mumbai == <<"M","u","m","b","a","i">>
Pune == <<"P","u","n","e">>

JsonValue(doc) ==
  CASE doc = JsonMumbai -> [kind |-> "dict", city |-> Mumbai, needs_fresh_data |-> "true"]
    [] doc = JsonPune -> [kind |-> "dict", city |-> Pune, needs_fresh_data |-> "true"]
    [] doc = JsonNullCity -> [kind |-> "dict", city |-> None, needs_fresh_data |-> "false"]
    [] doc = JsonNoFresh -> [kind |-> "dict", city |-> Mumbai, needs_fresh_data |-> "false"]
    [] doc = JsonCityOnly -> [kind |-> "dict", city |-> Mumbai, needs_fresh_data |-> "absent"]
    [] doc = JsonNumber -> [kind |-> "other", city |-> None, needs_fresh_data |-> "absent"]

JSONDecodeError == [kind |-> "JSONDecodeError", city |-> None, needs_fresh_data |-> "absent"]

json_loads(text) ==
  IF Len(text) = 1 /\ text[1] \in JsonDocuments THEN JsonValue(text[1]) ELSE JSONDecodeError

(***************************************************************************)
(* tools.get_weather: the report built from the weather API's answer       *)
(***************************************************************************)
PyNone == "<None>"

\* dict.get(key, default)
Get(d, key, default) == IF key \in DOMAIN d THEN d[key] ELSE default

\* str(value) in an f-string
Str(v) == IF v = PyNone THEN "None" ELSE v

\* the answers of the weather API: a full answer, an answer without "main",
\* a rejection (cod # 200), and "raises" for a failed or timed-out request
ApiFull ==
  [cod |-> "200", name |-> "Pune", country |-> "IN",
   main |-> [temp |-> "24.5", feels_like |-> "25.1", humidity |-> "60"],
   description |-> "clear sky", wind |-> [speed |-> "3.2"]]
ApiNoMain ==
  [cod |-> "200", name |-> "Pune", country |-> "IN",
   description |-> "clear sky", wind |-> [speed |-> "3.2"]]
ApiRejected == [cod |-> "404", message |-> "city not found"]
ApiRaises == [cod |-> "raises"]

ApiAnswers == {ApiFull, ApiNoMain, ApiRejected, ApiRaises}

EmptyDict == [k \in {} |-> PyNone]

\* str.capitalize() of the condition descriptions above
Capitalize(v) == IF v = "clear sky" THEN "Clear sky" ELSE v

\* what get_weather returns: a report (kind "dict") or an error text (kind "str")
ErrorText == [kind |-> "str"]

meteorological_report(data) ==
  LET main == Get(data, "main", EmptyDict)
  IN [kind |-> "dict",
      location |-> Get(data, "name", PyNone),
      country |-> Get(data, "country", PyNone),
      temperature |-> [current |-> Get(main, "temp", PyNone),
                       feels_like |-> Get(main, "feels_like", PyNone)],
      atmosphere |-> [humidity |-> Get(main, "humidity", PyNone)],
      conditions |-> [description |-> Capitalize(data.description)],
      wind |-> [speed_ms |-> Get(Get(data, "wind", EmptyDict), "speed", PyNone)]]

get_weather_result(data) ==
  IF data.cod = "raises" THEN ErrorText
  ELSE IF data.cod # "200" THEN ErrorText
  ELSE meteorological_report(data)

(***************************************************************************)
(* WeatherAgent._enhanced_fallback                                         *)
(***************************************************************************)
Apology == <<"I apologize, but I'm currently unable to process weather queries. Please try again in a moment.">>
Clarification == <<"I'd be happy to help with weather information! Could you please specify which city you're interested in?">>

NoData == [kind |-> "None"]

_enhanced_fallback(data, kb_context) ==
  IF data.kind # "dict" THEN Apology
  ELSE LET loc == Get(data, "location", "Unknown")
           country == Get(data, "country", "")
           temp == Get(data, "temperature", EmptyDict)
           atm == Get(data, "atmosphere", EmptyDict)
           cond == Get(data, "conditions", EmptyDict)
           wind == Get(data, "wind", EmptyDict)
       IN <<"The current temperature in ", Str(loc)>>
          \o (IF country # PyNone /\ country # "" THEN <<", ", Str(country)>> ELSE <<>>)
          \o <<" is ", Str(Get(temp, "current", "N/A")), "°C (feels like ",
               Str(Get(temp, "feels_like", "N/A")), "°C) with ",
               Str(Get(cond, "description", "N/A")), ". ",
               "Humidity is ", Str(Get(atm, "humidity", "N/A")),
               "% and wind speed is ", Str(Get(wind, "speed_ms", "N/A")), " m/s.">>

(***************************************************************************)
(* Inputs and bounds                                                       *)
(***************************************************************************)
QWeatherInPune == <<"w","e","a","t","h","e","r"," ","i","n"," ","P","u","n","e">>
QCompare == <<"C","o","m","p","a","r","e"," ","M","u","m","b","a","i"," ","a","n","d"," ","P","u","n","e">>
QWhatsTheWeather == <<"W","h","a","t","'","s"," ","t","h","e"," ","w","e","a","t","h","e","r"," ","i","n"," ","P","u","n","e","?">>
QHello == <<"h","e","l","l","o">>

Queries == {QWeatherInPune, QCompare, QWhatsTheWeather, QHello}

\* QCompare as another caller may type it: the same cache key
QCompareLoud == <<" ","C","O","M","P","A","R","E"," ","M","u","m","b","a","i"," ","a","n","d"," ","P","u","n","e"," ">>

AllQueries == Queries \cup {QCompareLoud}

Modes == {"always", "smart", "never"}

\* what the generative backend may answer to the intent prompt
IntentOutputs ==
  {<<JsonMumbai>>,
   <<"<think>", "first city?", "</think>", "\n", JsonPune>>,
   <<Fence, "json", "\n", JsonNullCity, "\n", Fence>>,
   <<JsonNoFresh>>,
   <<JsonCityOnly>>,
   <<JsonNumber>>,
   <<"The city is Mumbai.">>}

\* what the generative backend may answer to the synthesis prompt
SynthOutputs ==
  {<<" ", "It is sunny in Mumbai.", "\n">>,
   <<"<think>", "compare", "</think>", "\n", "Expect rain.">>,
   <<"<think>", "nothing to add", "</think>">>}

\* callers of run_agent
Procs == {1, 2}

\* run_agent calls in one behaviour: of the pipeline specification, of the
\* cache specification, and of the specification of concurrent callers
PipelineCalls == 1
MaxCalls == 3
ConcCalls == 2

\* clock ticks in one behaviour
MaxTicks == 2

\* documents the persisted knowledge base may hold near a city
MaxFound == 1

cache_ttl == 300

\* the clock advances by half a TTL
ClockStep == cache_ttl \div 2

(***************************************************************************)
(* The text functions, evaluated once over the inputs                      *)
(***************************************************************************)
_get_cache_key(query) == Strip(StrLower(query))

SimpleQuery == [q \in AllQueries |-> _is_simple_query(q)]
FallbackIntent == [q \in AllQueries |-> _fallback_intent_analysis(q)]
CacheKey == [q \in AllQueries |-> _get_cache_key(q)]

\* the queries that differ from q in letter case or in the whitespace around
\* them only
Variants == [q \in AllQueries |->
               {v \in AllQueries \ {q} : StrLower(Strip(v)) = StrLower(Strip(q))}]
ParsedIntent == [raw \in IntentOutputs |-> json_loads(_clean_llm_output(raw))]
CleanedAnswer == [raw \in SynthOutputs |-> Strip(_clean_llm_output(raw))]

(***************************************************************************)
(* State                                                                   *)
(***************************************************************************)
VARIABLES
  _rag_agent,      \* the singleton: <<>> (None) or <<[llm_mode, llm]>>
  response_cache,  \* the agent's dict: cache key -> [response, timestamp]
  now,             \* time.time()
  active,          \* the run the event loop is executing, 0 when all are suspended
  calls,           \* run_agent calls made so far
  run              \* per caller: the frame of its process_query call

vars == <<_rag_agent, response_cache, now, active, calls, run>>

NoIntent == [kind |-> "None", city |-> None, needs_fresh_data |-> "absent"]

\* the frame of a process_query call: its locals, the llm_mode its run_agent call
\* was given, and the log of what the call has done so far
\* what an awaited backend call came to when it did not answer
Raised == <<"<exception>">>

\* the frame of the call also keeps what each backend call came to: None while
\* there was no call or no answer yet, Raised, or the text the backend sent
IdleRun ==
  [pc |-> "idle", user_query |-> <<>>, llm_mode |-> "smart", intent |-> NoIntent,
   kb_context |-> 0, fresh_data |-> NoData, response |-> None, events |-> <<>>,
   intent_result |-> None, rag_result |-> None]

Init ==
  /\ _rag_agent = <<>>
  /\ response_cache = <<>>
  /\ now = 0
  /\ active = 0
  /\ calls = 0
  /\ run = [p \in Procs |-> IdleRun]

Count(events, ev) == Cardinality({i \in 1..Len(events) : events[i] = ev})

(***************************************************************************)
(* Response cache                                                          *)
(***************************************************************************)
\* mutant: an entry exactly one TTL old still counts as fresh
CacheFresh_Inclusive(entry, t) == t - entry.timestamp <= cache_ttl

\* time.time() - cached_data['timestamp'] < self.cache_ttl
CacheFresh(entry, t) == t - entry.timestamp < cache_ttl

\* the value _get_cached_response returns
_get_cached_response(cache, query, t) ==
  LET cache_key == CacheKey[query]
  IN IF cache_key \in DOMAIN cache /\ CacheFresh(cache[cache_key], t)
     THEN cache[cache_key].response
     ELSE None

\* mutant: a lookup sweeps every expired entry out of the cache
CacheAfterGet_Sweep(cache, query, t) ==
  [k \in {x \in DOMAIN cache : CacheFresh(cache[x], t)} |-> cache[k]]

\* the cache _get_cached_response leaves: an expired entry of the key is deleted
CacheAfterGet(cache, query, t) ==
  LET cache_key == CacheKey[query]
  IN IF cache_key \in DOMAIN cache /\ ~CacheFresh(cache[cache_key], t)
     THEN [k \in DOMAIN cache \ {cache_key} |-> cache[k]]
     ELSE cache

\* mutant: the first write of a key wins, later ones are dropped
_cache_response_KeepsFirst(cache, query, response, t) ==
  LET cache_key == CacheKey[query]
  IN IF cache_key \in DOMAIN cache THEN cache
     ELSE [k \in DOMAIN cache \cup {cache_key} |->
             IF k = cache_key THEN [response |-> response, timestamp |-> t] ELSE cache[k]]

\* the cache _cache_response leaves
_cache_response(cache, query, response, t) ==
  LET cache_key == CacheKey[query]
  IN [k \in DOMAIN cache \cup {cache_key} |->
        IF k = cache_key THEN [response |-> response, timestamp |-> t] ELSE cache[k]]

\* `if cached:` a None or an empty text is falsy
Truthy(text) == text # None /\ text # <<>>

(***************************************************************************)
(* Gating of the generative backend                                        *)
(***************************************************************************)
\* mutant: smart mode does not spare the backend on simple queries
IntentUsesFallback_NoSmartCheck(llm_mode, llm, query) == llm_mode = "never" \/ ~llm

\* _analyze_intent, the two early returns
IntentUsesFallback(llm_mode, llm, query) ==
  \/ llm_mode = "smart" /\ SimpleQuery[query]
  \/ llm_mode = "never" \/ ~llm

\* mutant: a simple query takes the template in every mode
SynthUsesFallback_AnyMode(llm_mode, llm, query) ==
  \/ SimpleQuery[query]
  \/ ~llm \/ llm_mode = "never"

\* _generate_rag_response, the two early returns
SynthUsesFallback(llm_mode, llm, query) ==
  \/ llm_mode \in {"smart", "never"} /\ SimpleQuery[query]
  \/ ~llm \/ llm_mode = "never"

(***************************************************************************)
(* The pipeline.  Only the awaited backend calls suspend a run, so a run   *)
(* executes alone from one suspension point to the next, and each such     *)
(* section is one action.  The operators below are the parts of            *)
(* process_query; each takes the frame f of the run, the agent, and the    *)
(* cache as the section has left it so far.                                *)
(***************************************************************************)
\* the run stays at pc with frame f; the event loop is kept or released
Goto(p, f, pc, cache, loop) ==
  /\ run' = [run EXCEPT ![p] = [f EXCEPT !.pc = pc]]
  /\ response_cache' = cache
  /\ active' = loop

\* a call of self._is_simple_query(user_query), logged with what it returned
Classify(f) ==
  [f EXCEPT !.events = Append(f.events, IF SimpleQuery[f.user_query]
                                        THEN "simple" ELSE "complex")]

\* mutant: the apology is returned but not cached
CacheAndReturn_SkipsApology(p, f, cache) ==
  IF f.response = Apology
  THEN Goto(p, f, "done", cache, p)
  ELSE Goto(p, [f EXCEPT !.events = Append(f.events, "cache_write")], "done",
            _cache_response(cache, f.user_query, f.response, now), p)

\* process_query, the cache write and the return
CacheAndReturn(p, f, cache) ==
  Goto(p, [f EXCEPT !.events = Append(f.events, "cache_write")], "done",
       _cache_response(cache, f.user_query, f.response, now), p)

\* mutant: a failed backend call is answered with the apology, whatever was fetched
RagFallback_Apology(f) == Apology

\* _generate_rag_response, `return self._enhanced_fallback(fresh_data, kb_context)`
RagFallback(f) == _enhanced_fallback(f.fresh_data, f.kb_context)

\* mutant: the response is cached before the backend is asked
GenerateRag_WritesFirst(p, f, agent, cache) ==
  LET g == IF agent.llm_mode \in {"smart", "never"} THEN Classify(f) ELSE f
  IN IF SynthUsesFallback(agent.llm_mode, agent.llm, f.user_query)
     THEN CacheAndReturn(p, [g EXCEPT !.response = RagFallback(f)], cache)
     ELSE Goto(p, [g EXCEPT !.events = g.events \o <<"cache_write", "llm_synth">>],
               "await_synth", _cache_response(cache, f.user_query, f.response, now), 0)

\* _generate_rag_response up to the backend call; the classifier is asked in
\* the modes smart and never only (`and` does not evaluate its right side
\* otherwise)
GenerateRag(p, f, agent, cache) ==
  LET g == IF agent.llm_mode \in {"smart", "never"} THEN Classify(f) ELSE f
  IN IF SynthUsesFallback(agent.llm_mode, agent.llm, f.user_query)
     THEN CacheAndReturn(p, [g EXCEPT !.response = RagFallback(f)], cache)
     ELSE Goto(p, [g EXCEPT !.events = Append(g.events, "llm_synth")], "await_synth", cache, 0)

\* WeatherKB.retrieve_insights(city, k): the number of excerpts returned, at most
\* k of the `found` nearest documents, none when the store fails
retrieve_insights(found, k, ok) == IF ok THEN (IF found < k THEN found ELSE k) ELSE 0

\* WeatherKB.add_insight: the document is persisted, or the call raises
add_insight(ok) == IF ok THEN "kb_add" ELSE "kb_add_failed"

\* intent.get('needs_fresh_data', True)
NeedsFresh(intent) == intent.needs_fresh_data \in {"true", "absent"}

\* mutant: the record is added to the knowledge base before it is kept, so a
\* failed add loses it
FreshData_AddFirst(p, f, agent, cache, env) ==
  IF NeedsFresh(f.intent)
  THEN \E data \in env.api_answers, ok1 \in env.kb_ok, ok2 \in env.kb_ok :
         LET result == get_weather_result(data)
             g == [f EXCEPT !.events = f.events \o
                                         <<"fetch", add_insight(ok1), add_insight(ok2)>>]
         IN IF result.kind = "dict"
            THEN GenerateRag(p, IF ok2 THEN [g EXCEPT !.fresh_data = result] ELSE g,
                             agent, cache)
            ELSE GenerateRag(p, [f EXCEPT !.events = f.events \o <<"fetch", "fetch_error">>],
                             agent, cache)
  ELSE GenerateRag(p, f, agent, cache)

\* mutant: whatever get_weather returns, an error text too, is added to the
\* knowledge base
FreshData_AddsErrorText(p, f, agent, cache, env) ==
  IF NeedsFresh(f.intent)
  THEN \E data \in env.api_answers, ok1 \in env.kb_ok, ok2 \in env.kb_ok :
         LET result == get_weather_result(data)
             g == [f EXCEPT !.events = f.events \o
                                         <<"fetch", add_insight(ok1), add_insight(ok2)>>]
         IN IF result.kind = "dict"
            THEN GenerateRag(p, [g EXCEPT !.fresh_data = result], agent, cache)
            ELSE GenerateRag(p, [g EXCEPT !.events = f.events \o
                                            <<"fetch", "fetch_error", add_insight(ok2)>>],
                             agent, cache)
  ELSE GenerateRag(p, f, agent, cache)

\* process_query, step 3: get_weather (which adds its report to the knowledge
\* base itself), then the orchestrator's own add.  "fetch_error" logs a
\* get_weather that returned an error text
FreshData(p, f, agent, cache, env) ==
  IF NeedsFresh(f.intent)
  THEN \E data \in env.api_answers, ok1 \in env.kb_ok, ok2 \in env.kb_ok :
         LET result == get_weather_result(data)
         IN IF result.kind = "dict"
            THEN GenerateRag(p, [f EXCEPT !.fresh_data = result,
                                          !.events = f.events \o
                                            <<"fetch", add_insight(ok1), add_insight(ok2)>>],
                             agent, cache)
            ELSE GenerateRag(p, [f EXCEPT !.events = f.events \o <<"fetch", "fetch_error">>],
                             agent, cache)
  ELSE GenerateRag(p, f, agent, cache)

\* the log of a retrieve: the call, and the failure the store logs
RetrieveLog(ok) == IF ok THEN <<"kb_retrieve">> ELSE <<"kb_retrieve", "kb_error">>

\* process_query, step 2

KBRetrieve(p, f, agent, cache, env) ==
  \E ok \in env.kb_ok, found \in env.kb_found :
    FreshData(p, [f EXCEPT !.kb_context = retrieve_insights(found, 2, ok),
                           !.events = f.events \o RetrieveLog(ok)],
              agent, cache, env)

\* `if not city`
NoCity(intent) == intent.city = None \/ intent.city = <<>>

\* mutant: the clarification is cached like any other response
CheckCity_CachesClarification(p, f, agent, cache, env) ==
  IF f.intent.kind # "dict"
  THEN Goto(p, f, "raised", cache, p)
  ELSE IF NoCity(f.intent)
  THEN CacheAndReturn(p, [f EXCEPT !.response = Clarification], cache)
  ELSE KBRetrieve(p, f, agent, cache, env)

\* process_query, intent.get('city') and the clarification
CheckCity(p, f, agent, cache, env) ==
  IF f.intent.kind # "dict"
  THEN \* intent.get on a value that is no dict: AttributeError, which nothing catches
       Goto(p, f, "raised", cache, p)
  ELSE IF NoCity(f.intent)
  THEN Goto(p, [f EXCEPT !.response = Clarification], "done", cache, p)
  ELSE KBRetrieve(p, f, agent, cache, env)

\* _analyze_intent up to the backend call
AnalyzeIntent(p, f, agent, cache, env) ==
  LET g == IF agent.llm_mode = "smart" THEN Classify(f) ELSE f
  IN IF IntentUsesFallback(agent.llm_mode, agent.llm, f.user_query)
     THEN CheckCity(p, [g EXCEPT !.intent = FallbackIntent[f.user_query]],
                    agent, cache, env)
     ELSE Goto(p, [g EXCEPT !.events = Append(g.events, "llm_intent")], "await_intent", cache, 0)

\* mutant: one computation in flight per key; while another run works on the
\* key, a caller is told to try again
process_query_SingleFlight(p, f, agent, env) ==
  IF \E q \in Procs \ {p} : /\ run[q].pc \in {"await_intent", "await_synth"}
                              /\ CacheKey[run[q].user_query] = CacheKey[f.user_query]
  THEN Goto(p, [f EXCEPT !.response = Apology, !.events = <<"cache_hit">>], "done",
            response_cache, p)
  ELSE LET cached == _get_cached_response(response_cache, f.user_query, now)
           cache == CacheAfterGet(response_cache, f.user_query, now)
       IN IF Truthy(cached)
          THEN Goto(p, [f EXCEPT !.response = cached, !.events = <<"cache_hit">>], "done",
                    cache, p)
          ELSE AnalyzeIntent(p, [f EXCEPT !.events = IF cache # response_cache
                                                    THEN <<"cache_expired">>
                                                    ELSE <<"cache_miss">>],
                             agent, cache, env)

\* process_query from its start to the first suspension or the return.  The log
\* starts with what the lookup came to: "cache_hit" (the cached text is
\* returned), "cache_expired" (a stale entry was deleted) or "cache_miss"
process_query(p, f, agent, env) ==
  LET cached == _get_cached_response(response_cache, f.user_query, now)
      cache == CacheAfterGet(response_cache, f.user_query, now)
  IN IF Truthy(cached)
     THEN Goto(p, [f EXCEPT !.response = cached, !.events = <<"cache_hit">>], "done", cache, p)
     ELSE AnalyzeIntent(p, [f EXCEPT !.events = IF cache # response_cache
                                               THEN <<"cache_expired">>
                                               ELSE <<"cache_miss">>],
                        agent, cache, env)

(***************************************************************************)
(* Actions                                                                 *)
(***************************************************************************)
\* run_agent(user_query, llm_mode): the first call builds the singleton, with a
\* backend if the credentials are there and the client initialises
RunAgent(p, env) ==
  /\ active = 0
  /\ run[p].pc = "idle"
  /\ calls < env.max_calls
  /\ \E q \in env.queries, m \in env.modes :
       LET f == [IdleRun EXCEPT !.user_query = q, !.llm_mode = m]
       IN \/ /\ _rag_agent = <<>>
             /\ \E llm \in env.llm :
                  /\ _rag_agent' = <<[llm_mode |-> m, llm |-> llm]>>
                  /\ process_query(p, f, _rag_agent'[1], env)
          \/ /\ _rag_agent # <<>>
             /\ UNCHANGED _rag_agent
             /\ process_query(p, f, _rag_agent[1], env)
  /\ calls' = calls + 1
  /\ UNCHANGED now

\* mutant: an answer that is no JSON is passed on as it is
IntentFromOutput_NoFallback(raw, query) == ParsedIntent[raw]

\* the intent a backend answer gives
IntentFromOutput(raw, query) ==
  LET parsed == ParsedIntent[raw]
  IN IF parsed.kind = "JSONDecodeError" THEN FallbackIntent[query] ELSE parsed

\* _analyze_intent resumed: the backend call failed, or answered
IntentReturn(p, env) ==
  /\ active = 0
  /\ run[p].pc = "await_intent"
  /\ \/ /\ env.llm_fails # {}
        /\ CheckCity(p, [run[p] EXCEPT !.intent = FallbackIntent[run[p].user_query],
                                        !.intent_result = Raised],
                     _rag_agent[1], response_cache, env)
     \/ \E raw \in env.intent_outputs :
          CheckCity(p, [run[p] EXCEPT !.intent = IntentFromOutput(raw, run[p].user_query),
                                     !.intent_result = raw],
                    _rag_agent[1], response_cache, env)
  /\ UNCHANGED <<_rag_agent, now, calls>>

\* _generate_rag_response resumed: the backend call failed, or answered
SynthReturn(p, env) ==
  /\ active = 0
  /\ run[p].pc = "await_synth"
  /\ \/ /\ env.llm_fails # {}
        /\ CacheAndReturn(p, [run[p] EXCEPT !.response = RagFallback(run[p]),
                                             !.rag_result = Raised],
                          response_cache)
     \/ \E raw \in env.synth_outputs :
          CacheAndReturn(p, [run[p] EXCEPT !.response = CleanedAnswer[raw],
                                          !.rag_result = raw],
                         response_cache)
  /\ UNCHANGED <<_rag_agent, now, calls>>

\* the call ends: the response, or the exception, goes to the caller of
\* run_agent and the frame is gone
Return(p) ==
  /\ active = p
  /\ run[p].pc \in {"done", "raised"}
  /\ run' = [run EXCEPT ![p] = IdleRun]
  /\ active' = 0
  /\ UNCHANGED <<_rag_agent, response_cache, now, calls>>

\* time passes
Tick ==
  /\ active = 0
  /\ now < MaxTicks * ClockStep
  /\ now' = now + ClockStep
  /\ UNCHANGED <<_rag_agent, response_cache, active, calls, run>>

(***************************************************************************)
(* Specifications                                                          *)
(***************************************************************************)
NextIn(callers, env) ==
  \/ \E p \in callers :
       \/ RunAgent(p, env)
       \/ IntentReturn(p, env)
       \/ SynthReturn(p, env)
       \/ Return(p)
  \/ Tick

\* the pipeline: one caller, every input and every behaviour of the backend,
\* the weather API and the knowledge base
Env ==
  [queries |-> Queries, modes |-> Modes, llm |-> BOOLEAN, llm_fails |-> {TRUE},
   intent_outputs |-> IntentOutputs, synth_outputs |-> SynthOutputs,
   api_answers |-> ApiAnswers, kb_ok |-> BOOLEAN, kb_found |-> 0..MaxFound,
   max_calls |-> PipelineCalls]

Next == NextIn({1}, Env)

Spec == Init /\ [][Next]_vars

\* the cache: one caller, several calls in a row as time passes
CacheEnv ==
  [queries |-> {QCompare, QCompareLoud, QWhatsTheWeather}, modes |-> Modes, llm |-> {TRUE},
   llm_fails |-> {},
   intent_outputs |-> {<<JsonMumbai>>}, synth_outputs |-> SynthOutputs,
   api_answers |-> {ApiFull, ApiRejected}, kb_ok |-> {TRUE}, kb_found |-> {0},
   max_calls |-> MaxCalls]

CacheNext == NextIn({1}, CacheEnv)

CacheSpec == Init /\ [][CacheNext]_vars

\* concurrent callers: the requests of two clients, each suspended while its
\* backend call is awaited, the other free to run meanwhile
ConcEnv ==
  [queries |-> {QCompare, QCompareLoud, QWhatsTheWeather}, modes |-> {"always", "smart"},
   llm |-> {TRUE}, llm_fails |-> {TRUE},
   intent_outputs |-> {<<JsonMumbai>>, <<JsonNumber>>},
   synth_outputs |-> {<<" ", "It is sunny in Mumbai.", "\n">>,
                      <<"<think>", "compare", "</think>", "\n", "Expect rain.">>},
   api_answers |-> {ApiFull}, kb_ok |-> {TRUE}, kb_found |-> {0},
   max_calls |-> ConcCalls]

ConcNext == NextIn(Procs, ConcEnv)

ConcSpec == Init /\ [][ConcNext]_vars

\* the event loop resumes a run whose awaited call has returned or failed, and
\* runs a call that can return to its end
Fairness ==
  \A p \in Procs : /\ WF_vars(IntentReturn(p, ConcEnv))
                    /\ WF_vars(SynthReturn(p, ConcEnv))
                    /\ WF_vars(Return(p))

LiveSpec == ConcSpec /\ Fairness
(***************************************************************************)
(* Properties                                                              *)
(***************************************************************************)
\* self.llm_mode and self.llm of the singleton
self_llm_mode == _rag_agent[1].llm_mode
self_llm == _rag_agent[1].llm

\* caller p makes a run_agent call in this step
Calls(p) == run[p].pc = "idle" /\ run'[p].pc # "idle"

\* the call of p got past the cache lookup
PastCache(p) == run[p].pc # "idle" /\ run[p].events[1] # "cache_hit"

\* the call of p has resolved its intent
IntentResolved(p) == PastCache(p) /\ run[p].pc \in {"done", "raised", "await_synth"}

Did(p, ev) == Count(run[p].events, ev) > 0

\* C1: a call for a query whose response was cached less than 300 seconds ago
\* returns the cached response and does nothing else (no backend call, no
\* knowledge-base call, no fetch).
C1_CacheIdempotence ==
  [][\A p \in Procs :
       LET key == CacheKey[run'[p].user_query]
       IN (Calls(p) /\ key \in DOMAIN response_cache
           /\ now - response_cache[key].timestamp < cache_ttl)
          => /\ run'[p].pc = "done"
             /\ run'[p].response = response_cache[key].response
             /\ run'[p].events = <<"cache_hit">>]_vars

\* C2: a lookup made 300 seconds or more after the entry was written does not
\* return the entry: the entry is deleted (what the key holds afterwards, if
\* anything, is what this call wrote) and the call goes on to resolve the intent.
C2_CacheExpiry ==
  [][\A p \in Procs :
       LET key == CacheKey[run'[p].user_query]
       IN (Calls(p) /\ key \in DOMAIN response_cache
           /\ now - response_cache[key].timestamp >= cache_ttl)
          => /\ run'[p].events[1] = "cache_expired"
             /\ \/ key \notin DOMAIN response_cache'
                \/ /\ response_cache'[key].timestamp = now
                   /\ Count(run'[p].events, "cache_write") = 1
                   /\ response_cache'[key].response = run'[p].response
             /\ \/ run'[p].pc = "await_intent"
                \/ run'[p].intent # NoIntent]_vars

C2_Witness ==
  \E p \in Procs :
    /\ run[p].pc = "done"
    /\ run[p].events[1] = "cache_expired"
    /\ Did(p, "cache_write")
    /\ response_cache[CacheKey[run[p].user_query]].timestamp = now

\* C3: no call ends with an exception.
C3_NoException == \A p \in Procs : run[p].pc # "raised"

\* C4: a call whose intent has no city returns the clarification and has made no
\* cache write, no knowledge-base retrieve or add, no fetch and no synthesis.
C4_NoCityNoEffects ==
  \A p \in Procs :
    (IntentResolved(p) /\ run[p].intent.kind = "dict" /\ NoCity(run[p].intent))
    => /\ run[p].pc = "done"
       /\ run[p].response = Clarification
       /\ \A ev \in {"cache_write", "kb_retrieve", "kb_add", "kb_add_failed",
                     "fetch", "llm_synth"} : ~Did(p, ev)

C4_Witness ==
  \E p \in Procs :
    /\ IntentResolved(p)
    /\ run[p].intent.kind = "dict"
    /\ NoCity(run[p].intent)
    /\ Did(p, "llm_intent")

\* C5: "weather in Pune" in smart mode on a cache miss is classified simple, gets
\* the intent {city: Pune, needs_fresh_data: true}, fetches the telemetry and,
\* when the fetch succeeds, answers with the sentence over the fetched record.
C5_SimpleLookup ==
  \A p \in Procs :
    (run[p].pc = "done" /\ PastCache(p) /\ run[p].user_query = QWeatherInPune
     /\ self_llm_mode = "smart")
    => /\ SimpleQuery[run[p].user_query]
       /\ run[p].intent.city = Pune
       /\ run[p].intent.needs_fresh_data = "true"
       /\ Did(p, "fetch")
       /\ run[p].fresh_data.kind = "dict"
            => /\ run[p].response = _enhanced_fallback(run[p].fresh_data, run[p].kb_context)
               /\ run[p].fresh_data.location \in Range(run[p].response)
               /\ run[p].fresh_data.temperature.current \in Range(run[p].response)

\* C6: "Compare Mumbai and Pune" resolves to the first city it mentions, Mumbai,
\* on every path.
C6_FirstCity ==
  \A p \in Procs :
    (IntentResolved(p) /\ run[p].user_query = QCompare /\ run[p].intent.kind = "dict")
    => run[p].intent.city = Mumbai

\* C7: the response returned is never empty.
C7_NonEmptyResponse ==
  \A p \in Procs : run[p].pc = "done" => Truthy(run[p].response)

\* C8: a call run_agent(q, llm_mode="never") makes no generative call.
C8_ModeOfTheCall ==
  \A p \in Procs :
    (run[p].pc # "idle" /\ run[p].llm_mode = "never")
    => ~Did(p, "llm_intent") /\ ~Did(p, "llm_synth")

\* C9: the intent stage calls the backend exactly when a backend is configured
\* and the agent's mode is always, or smart with a complex query; otherwise the
\* intent is the deterministic extraction.
C9_IntentGating ==
  \A p \in Procs :
    PastCache(p)
    => LET generative == self_llm /\ (\/ self_llm_mode = "always"
                                      \/ self_llm_mode = "smart"
                                         /\ ~SimpleQuery[run[p].user_query])
       IN /\ Count(run[p].events, "llm_intent") = (IF generative THEN 1 ELSE 0)
          /\ ~generative => run[p].intent = FallbackIntent[run[p].user_query]

C9_Witness ==
  \E p \in Procs :
    /\ IntentResolved(p)
    /\ self_llm_mode = "smart"
    /\ Did(p, "llm_intent")
    /\ run[p].intent # FallbackIntent[run[p].user_query]

\* C10: once a city is resolved, synthesis is the deterministic template, with no
\* backend call, when the mode is never, or smart with a simple query, or no
\* backend is configured; in every other case it makes exactly one backend call.
C10_SynthGating ==
  \A p \in Procs :
    (run[p].pc \in {"done", "await_synth"} /\ Did(p, "kb_retrieve"))
    => LET deterministic == \/ self_llm_mode = "never"
                            \/ self_llm_mode = "smart" /\ SimpleQuery[run[p].user_query]
                            \/ ~self_llm
       IN IF deterministic
          THEN /\ ~Did(p, "llm_synth")
               /\ run[p].response = _enhanced_fallback(run[p].fresh_data, run[p].kb_context)
          ELSE Count(run[p].events, "llm_synth") = 1

C10_Witness ==
  \E p \in Procs :
    /\ run[p].pc = "done"
    /\ Did(p, "llm_synth")
    /\ self_llm_mode = "always"
    /\ SimpleQuery[run[p].user_query]


\* the backend call of the intent stage of p failed, or its answer, cleaned, is
\* no JSON
IntentCallFailed(p) ==
  \/ run[p].intent_result = Raised
  \/ /\ run[p].intent_result \in IntentOutputs
     /\ json_loads(_clean_llm_output(run[p].intent_result)).kind = "JSONDecodeError"

Synthesized(p) == run[p].pc = "done" /\ Did(p, "cache_write")

\* C12: when the backend call of the synthesis fails, or there is no backend,
\* the response is the deterministic one: the sentence over the telemetry that
\* was fetched, the apology when there is none.
C12_SynthFallback ==
  \A p \in Procs :
    (Synthesized(p) /\ (run[p].rag_result = Raised \/ ~self_llm))
    => IF run[p].fresh_data.kind = "dict"
       THEN /\ run[p].response = _enhanced_fallback(run[p].fresh_data, run[p].kb_context)
            /\ run[p].response[1] = "The current temperature in "
            /\ run[p].response[2] = Str(run[p].fresh_data.location)
       ELSE run[p].response = Apology

C12_Witness ==
  \E p \in Procs :
    /\ Synthesized(p)
    /\ run[p].rag_result = Raised
    /\ run[p].fresh_data.kind = "dict"

\* the synthesis of p was the deterministic one
Deterministic(p) == ~Did(p, "llm_synth") \/ run[p].rag_result = Raised

\* C13: when the fetch fails and the knowledge base gave no excerpts, the run
\* goes on without telemetry, adds nothing to the knowledge base, and its
\* deterministic synthesis returns the apology.
C13_FetchFailure ==
  \A p \in Procs :
    (Did(p, "fetch_error") /\ run[p].kb_context = 0)
    => /\ run[p].pc \in {"await_synth", "done"}
       /\ run[p].fresh_data = NoData
       /\ ~Did(p, "kb_add") /\ ~Did(p, "kb_add_failed")
       /\ (Synthesized(p) /\ Deterministic(p)) => run[p].response = Apology

C13_Witness ==
  \E p \in Procs :
    /\ Did(p, "fetch_error")
    /\ run[p].kb_context = 0
    /\ Synthesized(p)
    /\ Deterministic(p)

\* C14: in one run each external operation is attempted at most once: the
\* intent call, the retrieve, the fetch, the add of the fetched record, and the
\* synthesis call.
C14_AtMostOnce ==
  \A p \in Procs :
    /\ \A ev \in {"llm_intent", "kb_retrieve", "fetch", "llm_synth"} :
         Count(run[p].events, ev) <= 1
    /\ Count(run[p].events, "kb_add") + Count(run[p].events, "kb_add_failed") <= 1

\* C15: every run that was started returns a response to its caller, whatever
\* the other caller does meanwhile.
C15_RunCompletes ==
  \A p \in Procs : (run[p].pc # "idle") ~> (run[p].pc = "done")

\* every run that was started ends, with a response or with an exception
RunEnds ==
  \A p \in Procs : (run[p].pc # "idle") ~> (run[p].pc \in {"done", "raised"})

Before(events, a, b) ==
  \A i, j \in 1..Len(events) : (events[i] = a /\ events[j] = b) => i < j

\* the run of p missed the cache and resolved a city
ResolvedCity(p) == IntentResolved(p) /\ run[p].intent.kind = "dict" /\ ~NoCity(run[p].intent)

\* C17: a run that missed the cache and resolved a city goes through its steps
\* in this order: cache read, intent resolution, retrieve, fetch (exactly when
\* needs_fresh_data is true or absent) and then the add (exactly when the fetch
\* gave a record), synthesis, one cache write of the synthesized response,
\* return.  The cache is not written before the synthesis is over, and the
\* text returned is the text written.
C17_StepOrder ==
  \A p \in Procs :
    ResolvedCity(p)
    => LET ev == run[p].events
           adds == {"kb_add", "kb_add_failed"}
       IN /\ ev[1] \in {"cache_miss", "cache_expired"}
          /\ Count(ev, "kb_retrieve") = 1
          /\ Before(ev, "llm_intent", "kb_retrieve")
          /\ Did(p, "fetch") <=> NeedsFresh(run[p].intent)
          /\ Before(ev, "kb_retrieve", "fetch")
          /\ (\E a \in adds : Did(p, a)) <=> run[p].fresh_data.kind = "dict"
          /\ \A a \in adds : Before(ev, "fetch", a) /\ Before(ev, a, "llm_synth")
          /\ Before(ev, "kb_retrieve", "llm_synth") /\ Before(ev, "fetch", "llm_synth")
          /\ run[p].pc = "await_synth" => ~Did(p, "cache_write")
          /\ run[p].pc = "done"
             => /\ Count(ev, "cache_write") = 1
                /\ ev[Len(ev)] = "cache_write"
                /\ response_cache[CacheKey[run[p].user_query]].response = run[p].response

C17_Witness ==
  \E p \in Procs :
    /\ ResolvedCity(p)
    /\ run[p].pc = "done"
    /\ \A e \in {"llm_intent", "kb_retrieve", "fetch", "kb_add", "llm_synth", "cache_write"} :
         Did(p, e)

\* the run of q is suspended at a backend call and has not written the cache
Suspended(q) == run[q].pc \in {"await_intent", "await_synth"} /\ ~Did(q, "cache_write")

\* C18: nothing guards the cache against concurrent runs.  A call made while
\* another run of the same key is suspended at a backend call, before that run
\* has written the cache, misses the cache like the first and goes through the
\* pipeline itself.
C18_NoGuard ==
  [][\A p, q \in Procs :
       LET key == CacheKey[run'[p].user_query]
       IN (/\ Calls(p) /\ p # q /\ Suspended(q)
           /\ CacheKey[run[q].user_query] = key
           /\ ~(key \in DOMAIN response_cache /\ Truthy(response_cache[key].response)))
          => /\ run'[p].events[1] = "cache_miss"
             /\ run'[p].response # Apology
             /\ run'[p].pc \in {"await_intent", "await_synth"}
                \/ Count(run'[p].events, "kb_retrieve") = 1
                \/ run'[p].response = Clarification]_vars

\* two runs of the same query have both missed the cache and are both in the
\* synthesis
C18_Witness ==
  \E p, q \in Procs :
    /\ p # q
    /\ run[p].pc = "await_synth" /\ run[q].pc = "await_synth"
    /\ run[p].user_query = run[q].user_query
    /\ run[p].events[1] = "cache_miss" /\ run[q].events[1] = "cache_miss"

\* the run of p writes the cache in this step
Writes(p) == Count(run'[p].events, "cache_write") > Count(run[p].events, "cache_write")

\* C19: the last write wins.  A run that writes the cache leaves, under the key
\* of its query, the one entry with its own response and the time of the write,
\* whatever another run had written there, and touches no other key; a step
\* that writes nothing changes no entry (it may delete an expired one).
C19_LastWriteWins ==
  [][/\ \A p \in Procs :
          LET key == CacheKey[run'[p].user_query]
          IN Writes(p)
             => /\ DOMAIN response_cache' = DOMAIN response_cache \cup {key}
                /\ response_cache'[key] = [response |-> run'[p].response, timestamp |-> now]
                /\ \A k \in DOMAIN response_cache \ {key} :
                     response_cache'[k] = response_cache[k]
     /\ (\A p \in Procs : ~Writes(p))
        => \A k \in DOMAIN response_cache' :
             k \in DOMAIN response_cache /\ response_cache'[k] = response_cache[k]]_vars

\* a run that missed the cache is still awaiting its synthesis while the cache
\* holds, under its key, what a concurrent run has written since
C19_Witness ==
  \E p \in Procs :
    LET key == CacheKey[run[p].user_query]
    IN /\ run[p].pc = "await_synth"
       /\ run[p].events[1] = "cache_miss"
       /\ key \in DOMAIN response_cache
       /\ Truthy(response_cache[key].response)
       /\ response_cache[key].timestamp < now

\* C20: a failure of the knowledge base ends no run and changes no response.
\* A failed retrieve leaves the context empty and the run goes on; a failed add
\* after a fetch that gave a record leaves the record in use, and the response,
\* returned and cached, is the one over that record.
C20_StoreFailures ==
  \A p \in Procs :
    /\ Did(p, "kb_error")
       => /\ run[p].kb_context = 0
          /\ run[p].pc \in {"await_synth", "done"}
    /\ Did(p, "kb_add_failed")
       => /\ run[p].pc \in {"await_synth", "done"}
          /\ run[p].fresh_data.kind = "dict"
          /\ (Synthesized(p) /\ Deterministic(p))
             => /\ run[p].response = _enhanced_fallback(run[p].fresh_data, 0)
                /\ run[p].response # Apology
                /\ response_cache[CacheKey[run[p].user_query]].response = run[p].response

C20_Witness ==
  \E p \in Procs :
    /\ Synthesized(p)
    /\ Deterministic(p)
    /\ Did(p, "kb_error")
    /\ Count(run[p].events, "kb_add_failed") = 2
    /\ run[p].response[1] = "The current temperature in "

\* the cache holds, under the key of query q, an entry younger than the TTL
FreshEntry(q) ==
  /\ CacheKey[q] \in DOMAIN response_cache
  /\ now - response_cache[CacheKey[q]].timestamp < cache_ttl

\* C21: queries that differ only in letter case or in the whitespace around
\* them share a cache entry: a call of q2, made within the TTL after a run of q1
\* cached a response, returns that response from the cache and resolves no
\* intent of its own.
C21_NormalizedKey ==
  [][\A p \in Procs : \A q1 \in AllQueries :
       (Calls(p) /\ run'[p].user_query \in Variants[q1] /\ FreshEntry(q1))
       => /\ run'[p].pc = "done"
          /\ run'[p].response = response_cache[CacheKey[q1]].response
          /\ run'[p].events = <<"cache_hit">>]_vars

\* the same for every response that is not empty
NormalizedHit ==
  [][\A p \in Procs : \A q1 \in AllQueries :
       (Calls(p) /\ run'[p].user_query \in Variants[q1] /\ FreshEntry(q1)
        /\ Truthy(response_cache[CacheKey[q1]].response))
       => /\ run'[p].pc = "done"
          /\ run'[p].response = response_cache[CacheKey[q1]].response
          /\ run'[p].events = <<"cache_hit">>
          /\ response_cache' = response_cache]_vars

\* key k has in the next state the entry it has now
Kept(k) ==
  /\ k \in DOMAIN response_cache /\ k \in DOMAIN response_cache'
  /\ response_cache'[k] = response_cache[k]

\* C22: eviction is lazy and local.  An entry leaves the cache only in a lookup
\* of its own key made when it has expired; a lookup changes no entry of
\* another key; a cache hit changes nothing, the timestamp of the entry
\* included; a put changes the entry of its own key only; and nothing else
\* changes the cache.
C22_LazyEviction ==
  [][/\ \A k \in DOMAIN response_cache :
          k \notin DOMAIN response_cache'
          => \E p \in Procs : /\ Calls(p)
                              /\ CacheKey[run'[p].user_query] = k
                              /\ now - response_cache[k].timestamp >= cache_ttl
     /\ \A p \in Procs :
          LET key == CacheKey[run'[p].user_query]
          IN /\ Calls(p) => \A k \in DOMAIN response_cache \ {key} : Kept(k)
             /\ (Calls(p) /\ run'[p].events = <<"cache_hit">>)
                => response_cache' = response_cache
             /\ Writes(p)
                => \A k \in (DOMAIN response_cache \cup DOMAIN response_cache') \ {key} :
                     Kept(k)
     /\ (\A p \in Procs : ~Calls(p) /\ ~Writes(p)) => response_cache' = response_cache]_vars

\* a lookup has found the entry of its key expired and removed it
C22_Witness ==
  \E p \in Procs :
    /\ run[p].pc = "await_intent"
    /\ run[p].events[1] = "cache_expired"
    /\ CacheKey[run[p].user_query] \notin DOMAIN response_cache
    /\ DOMAIN response_cache # {}

\* C23: the deterministic sentence over a fetched record names the location,
\* the country if there is one, the current and the feels-like temperature, the
\* description, the humidity and the wind speed, with "N/A" in the place of
\* every value the record has not got.
C23_MissingIsNA ==
  \A p \in Procs :
    (Synthesized(p) /\ Deterministic(p) /\ run[p].fresh_data.kind = "dict")
    => LET d == run[p].fresh_data
           Shown(v) == IF v = PyNone THEN "N/A" ELSE v
           head == <<"The current temperature in ", Str(d.location)>>
                   \o (IF d.country # PyNone /\ d.country # ""
                       THEN <<", ", d.country>> ELSE <<>>)
       IN run[p].response
            = head \o <<" is ", Shown(d.temperature.current), "°C (feels like ",
                        Shown(d.temperature.feels_like), "°C) with ",
                        Shown(d.conditions.description), ". ",
                        "Humidity is ", Shown(d.atmosphere.humidity),
                        "% and wind speed is ", Shown(d.wind.speed_ms), " m/s.">>

\* the same for the records that have every value
SentenceOverFullRecord ==
  \A p \in Procs :
    (Synthesized(p) /\ Deterministic(p) /\ run[p].fresh_data = get_weather_result(ApiFull))
    => run[p].response
         = <<"The current temperature in ", "Pune", ", ", "IN", " is ", "24.5",
             "°C (feels like ", "25.1", "°C) with ", "Clear sky", ". ",
             "Humidity is ", "60", "% and wind speed is ", "3.2", " m/s.">>

\* the run of p, with a city resolved, comes out of the synthesis in this step
Finishes(p) ==
  run[p].pc # "done" /\ run'[p].pc = "done" /\ Count(run'[p].events, "kb_retrieve") = 1

\* C24: a run that resolved a city caches whatever its synthesis returned, the
\* apology after a failed fetch included; a call for the same query within the
\* next 300 seconds then returns the apology from the cache and fetches
\* nothing, whatever the weather API would answer now.
C24_ApologyCached ==
  [][\A p \in Procs :
       LET key == CacheKey[run'[p].user_query]
       IN /\ Finishes(p)
             => /\ key \in DOMAIN response_cache'
                /\ response_cache'[key] = [response |-> run'[p].response, timestamp |-> now]
          /\ (Calls(p) /\ FreshEntry(run'[p].user_query)
              /\ response_cache[key].response = Apology)
             => /\ run'[p].pc = "done"
                /\ run'[p].response = Apology
                /\ run'[p].events = <<"cache_hit">>
                /\ response_cache' = response_cache]_vars

\* a call has got the apology from the cache
C24_Witness ==
  \E p \in Procs :
    /\ run[p].pc = "done"
    /\ run[p].events = <<"cache_hit">>
    /\ run[p].response = Apology
    /\ now > response_cache[CacheKey[run[p].user_query]].timestamp
====
